---- MODULE Spec2Model ----
(***************************************************************************)
(* ProtoLens: the region-tracking protobuf decoder (decodeWithRegions and  *)
(* its recursive readMessage loop), the two region queries, and the App    *)
(* effects that call them.                                                 *)
(*                                                                         *)
(* One step of the model is one iteration of the readMessage loop (or the  *)
(* loop's exit); the recursion of readMessage is an explicit call stack.   *)
(* JavaScript objects and arrays live in a heap and are referred to by     *)
(* index, so that a region's value aliases the object it was given.        *)
(***************************************************************************)
EXTENDS Integers, Sequences, FiniteSets, TLC

\* Longest input buffer that is enumerated.
MaxLen == 5

\* The byte values an input buffer is drawn from:
\*   0    the varint 0, the length 0; as a tag: field 0, wire type 0
\*   2    the varint 2, the length 2; as a tag: field 0, wire type 2
\*   16   tag (field 2, wire type 0)      18  tag (field 2, wire type 2)
\*   34   tag (field 4, wire type 2)      128 a varint continuation byte
\* No byte has bit 3 set, so every 32-bit varint they spell is below 2^31.
Bytes == {0, 2, 16, 18, 34, 128}

Buffers == UNION { [1..n -> Bytes] : n \in 0..MaxLen }

(***************************************************************************)
(* The schema: protobuf.Type descriptors as protobufjs resolves them.      *)
(* A field descriptor carries the properties the decoder reads: id, name,  *)
(* type (the type name), repeated, packed, map, and what resolvedType is   *)
(* an instance of ("Type", "Enum" or "none").                              *)
(***************************************************************************)
Field(id, name, type, repeated, packed, map, resolved) ==
    [id |-> id, name |-> name, type |-> type, repeated |-> repeated,
     packed |-> packed, map |-> map, resolved |-> resolved]

\* message Root  { repeated int32 nums = 2 [packed = true]; Inner inner = 4; }
\* message Inner { repeated Inner kids = 2; Leaf leaf = 4; }
\* message Leaf  { Kind e = 2; map<int32, int32> m = 4; }   enum Kind { ... }
Schema ==
    [Root  |-> << Field(2, "nums",  "int32", TRUE,  TRUE,  FALSE, "none"),
                  Field(4, "inner", "Inner", FALSE, FALSE, FALSE, "Type") >>,
     Inner |-> << Field(2, "kids",  "Inner", TRUE,  FALSE, FALSE, "Type"),
                  Field(4, "leaf",  "Leaf",  FALSE, FALSE, FALSE, "Type") >>,
     Leaf  |-> << Field(2, "e",     "Kind",  FALSE, FALSE, FALSE, "Enum"),
                  Field(4, "m",     "int32", FALSE, FALSE, TRUE,  "none") >>]

\* The message types the user can select as the root type of a decode.
TypeNames == DOMAIN Schema

NoField == Field(0 - 1, "", "", FALSE, FALSE, FALSE, "none")

\* for (const name in currentType.fields) if (field_.id == fieldId) ...
FindField(currentType, fieldId) ==
    LET fs == Schema[currentType]
        hits == { i \in 1..Len(fs) : fs[i].id = fieldId }
    IN  IF hits = {} THEN NoField
        ELSE fs[CHOOSE i \in hits : \A j \in hits : i <= j]

(***************************************************************************)
(* protobuf.Reader over the one shared buffer. Offsets are 0-based as in   *)
(* the code; buf[p + 1] is the byte at offset p. A read returns            *)
(* [ok, pos, val, err]: ok = FALSE is a thrown error of class err, pos is  *)
(* reader.pos afterwards.                                                  *)
(***************************************************************************)
Undefined == 0 - 1

ByteAt(buf, p) == IF p >= 0 /\ p < Len(buf) THEN buf[p + 1] ELSE Undefined

Ok(p, v) == [ok |-> TRUE, pos |-> p, val |-> v, err |-> ""]

\* indexOutOfRange(reader): RangeError("index out of range: pos + n > len")
OutOfRange(p) == [ok |-> FALSE, pos |-> p, val |-> 0, err |-> "RangeError"]

\* Error("invalid wire type " + wireType + " at offset " + pos)
InvalidWireType(p) == [ok |-> FALSE, pos |-> p, val |-> 0, err |-> "Error"]

Pow2(n) == 2 ^ n

\* (b & 127) of a byte, 0 for a read past the end (undefined & 127)
Low7(b) == IF b = Undefined THEN 0 ELSE b % 128

\* buf[pos] < 128 (false for undefined)
IsLast(b) == b # Undefined /\ b < 128

\* reader.uint32(): up to five bytes are examined without a bounds check;
\* when none of them ends the varint the reader skips five more and only
\* then compares pos with len. The fifth byte gives four bits, so the sum
\* is below 2^32 and ">>> 0" leaves it as it is.
RECURSIVE VarintSum(_, _, _)
VarintSum(buf, pos, k) ==
    LET b == ByteAt(buf, pos + k)
        part == IF k = 4 THEN (Low7(b) % 16) * Pow2(28) ELSE Low7(b) * Pow2(7 * k)
    IN  IF k = 0 THEN part ELSE part + VarintSum(buf, pos, k - 1)

\* A varint read that leaves reader.pos where it was.
Uint32Peek(buf, pos) ==
    LET ends == { k \in 0..4 : IsLast(ByteAt(buf, pos + k)) }
    IN  IF ends # {}
        THEN LET k == CHOOSE i \in ends : \A j \in ends : i <= j
             IN  Ok(pos, VarintSum(buf, pos, k))
        ELSE OutOfRange(Len(buf))

Uint32(buf, pos) ==
    LET ends == { k \in 0..4 : IsLast(ByteAt(buf, pos + k)) }
    IN  IF ends # {}
        THEN LET k == CHOOSE i \in ends : \A j \in ends : i <= j
             IN  Ok(pos + k + 1, VarintSum(buf, pos, k))
        ELSE IF pos + 10 > Len(buf)
             THEN OutOfRange(Len(buf))
             ELSE Ok(pos + 10, VarintSum(buf, pos, 4))

\* reader.int32(): uint32() | 0, which wraps a value of 2^31 or more
Int32(buf, pos) ==
    LET r == Uint32(buf, pos)
        top == Pow2(30) + (Pow2(30) - 1)
    IN  IF r.ok /\ r.val > top THEN Ok(r.pos, ((r.val - top) - 1) - top - 1) ELSE r

\* reader.sint32(): zig-zag, (value >>> 1) ^ -(value & 1)
Sint32(buf, pos) ==
    LET r == Uint32(buf, pos)
    IN  IF ~r.ok THEN r
        ELSE IF r.val % 2 = 0 THEN Ok(r.pos, r.val \div 2)
             ELSE Ok(r.pos, 0 - (r.val \div 2) - 1)

\* reader.bool(): uint32() !== 0
Bool(buf, pos) ==
    LET r == Uint32(buf, pos)
    IN  IF r.ok /\ r.val # 0 THEN Ok(r.pos, 1) ELSE r

\* reader.fixed32(): four little-endian bytes, bounds-checked first
Fixed32(buf, pos) ==
    IF pos + 4 > Len(buf) THEN OutOfRange(pos)
    ELSE Ok(pos + 4, buf[pos + 1] + buf[pos + 2] * Pow2(8)
                     + buf[pos + 3] * Pow2(16) + buf[pos + 4] * Pow2(24))

\* reader.skip(length)
SkipBytes(buf, pos, length) ==
    IF pos + length > Len(buf) THEN OutOfRange(pos) ELSE Ok(pos + length, 0)

\* reader.skip(): do { if (pos >= len) throw } while (buf[pos++] & 128)
RECURSIVE SkipVarint(_, _)
SkipVarint(buf, pos) ==
    IF pos >= Len(buf) THEN OutOfRange(pos)
    ELSE IF buf[pos + 1] >= 128 THEN SkipVarint(buf, pos + 1)
         ELSE Ok(pos + 1, 0)

\* reader.skipType(wireType); wire type 3 skips a group up to its end tag
RECURSIVE SkipType(_, _, _)
SkipType(buf, pos, wireType) ==
    CASE wireType = 0 -> SkipVarint(buf, pos)
      [] wireType = 1 -> SkipBytes(buf, pos, 8)
      [] wireType = 2 ->
            LET n == Uint32(buf, pos)
            IN  IF n.ok THEN SkipBytes(buf, n.pos, n.val) ELSE n
      [] wireType = 3 ->
            LET t == Uint32(buf, pos)
            IN  IF ~t.ok THEN t
                ELSE IF t.val % 8 = 4 THEN Ok(t.pos, 0)
                ELSE LET s == SkipType(buf, t.pos, t.val % 8)
                     IN  IF s.ok THEN SkipType(buf, s.pos, 3) ELSE s
      [] wireType = 5 -> SkipBytes(buf, pos, 4)
      [] OTHER -> InvalidWireType(pos)

\* The reader methods the schema's scalar fields are read by:
\* typeof reader[field.type] === 'function'
ReaderMethods == {"int32", "uint32", "sint32", "bool", "fixed32"}

ReadScalar(method, buf, pos) ==
    CASE method = "int32"   -> Int32(buf, pos)
      [] method = "uint32"  -> Uint32(buf, pos)
      [] method = "sint32"  -> Sint32(buf, pos)
      [] method = "bool"    -> Bool(buf, pos)
      [] method = "fixed32" -> Fixed32(buf, pos)

(***************************************************************************)
(* JavaScript values. A value is a number, a string, null, undefined or a  *)
(* reference to a heap object (a plain object or an array).                *)
(***************************************************************************)
IntV(n) == [t |-> "int", n |-> n, s |-> ""]
StrV(s) == [t |-> "str", n |-> 0, s |-> s]
RefV(o) == [t |-> "ref", n |-> o, s |-> ""]
NullV  == [t |-> "null", n |-> 0, s |-> ""]
UndefV == [t |-> "undefined", n |-> 0, s |-> ""]

\* const nestedObj = {};   and   targetObj[fieldName] = [];
NewObject == [arr |-> FALSE, elems |-> << >>, props |-> << >>]
NewArray  == [arr |-> TRUE,  elems |-> << >>, props |-> << >>]

\* targetObj[fieldName]
GetProp(h, o, name) ==
    IF name \in DOMAIN h[o].props THEN h[o].props[name] ELSE UndefV

\* targetObj[fieldName] = v
SetProp(h, o, name, v) ==
    [h EXCEPT ![o].props =
        [n \in (DOMAIN @) \cup {name} |-> IF n = name THEN v ELSE @[n]]]

\* arr.push(v)
Push(h, a, v) == [h EXCEPT ![a].elems = Append(@, v)]

\* !x is false exactly for a truthy x
Truthy(v) ==
    \/ v.t = "ref"
    \/ v.t = "int" /\ v.n # 0
    \/ v.t = "str" /\ v.s # ""

\* Array.isArray(x)
IsArray(h, v) == v.t = "ref" /\ h[v.n].arr

(***************************************************************************)
(* Paths. The code builds a path string from field names joined by "."     *)
(* and "[index]" suffixes; the model keeps the string as the sequence of   *)
(* its segments, which determines the string.                              *)
(***************************************************************************)
NameTok(s) == [k |-> "name", s |-> s, i |-> 0]
IdxTok(i)  == [k |-> "idx",  s |-> "", i |-> i]

\* basePath ? `${basePath}.${fieldName}` : fieldName
JoinPath(basePath, name) == Append(basePath, NameTok(name))

\* `${currentPath}[${index}]`
IndexPath(path, index) == Append(path, IdxTok(index))

VARIABLES
    binaryData,        \* App: the uploaded buffer (input)
    selectedType,      \* App: the message type chosen as root (input)
    pos,               \* reader.pos, the one shared cursor
    regions,           \* decodeWithRegions: const regions
    heap,              \* the objects and arrays built so far; result is heap[1]
    stack,             \* the readMessage activations, innermost last
    status,            \* "idle", "running", "returned" or "thrown"
    thrown,            \* the error decodeWithRegions threw, if any
    returnValue,       \* what decodeWithRegions returned, if it did
    console,           \* the errors given to console.error
    decodingResult,    \* App state
    error,             \* App state
    hoveredByteIndex,  \* App state
    hoveredPath,       \* App state
    hoveredRegion,     \* App state
    found              \* the last call of findRegionsByPath: argument and result

decoderVars == << pos, regions, heap, stack, status, thrown, returnValue, console >>
appVars == << decodingResult, error >>
hoverVars == << hoveredByteIndex, hoveredPath, hoveredRegion, found >>
vars == << binaryData, selectedType, pos, regions, heap, stack, status, thrown,
           returnValue, console, decodingResult, error, hoveredByteIndex, hoveredPath, hoveredRegion,
           found >>

\* The object decodeWithRegions builds: const result = {}
result == 1

NoError == [message |-> ""]
NoValue == [returned |-> FALSE, result |-> NullV, regions |-> << >>]
NoResult == [set |-> FALSE, data |-> NullV, regions |-> << >>]
NoRegion == [start |-> 0 - 1, end |-> 0 - 1, path |-> << >>, value |-> UndefV,
             type |-> "", wireType |-> 0 - 1, fieldName |-> "", depth |-> 0 - 1]
NoIndex == 0 - 1
NoPath == << [k |-> "undefined", s |-> "", i |-> 0] >>
NoFound == [called |-> FALSE, path |-> NoPath, regions |-> << >>]

ByteRegion(start, end, path, value, type, wt, name, depth) ==
    [start |-> start, end |-> end, path |-> path, value |-> value,
     type |-> type, wireType |-> wt, fieldName |-> name, depth |-> depth]

\* The locals of a readMessage iteration that is suspended in a recursive call.
NoCall == [startPos |-> 0, wireType |-> 0, fieldName |-> "", currentPath |-> << >>,
           type |-> "", nestedObj |-> 0]

\* One activation of readMessage(currentType, endPos, targetObj, basePath,
\* depth, globalOffset), with the suspended iteration of its caller.
Frame(currentType, endPos, targetObj, basePath, depth, globalOffset, call) ==
    [currentType |-> currentType, endPos |-> endPos, targetObj |-> targetObj,
     basePath |-> basePath, depth |-> depth, globalOffset |-> globalOffset,
     call |-> call]

Init ==
    /\ binaryData \in Buffers
    /\ selectedType \in TypeNames
    /\ pos = 0
    /\ regions = << >>
    /\ heap = << >>
    /\ stack = << >>
    /\ status = "idle"
    /\ thrown = NoError
    /\ returnValue = NoValue
    /\ console = << >>
    /\ decodingResult = NoResult
    /\ error = ""
    /\ hoveredByteIndex = NoIndex
    /\ hoveredPath = NoPath
    /\ hoveredRegion = NoRegion
    /\ found = NoFound

(***************************************************************************)
(* One iteration of the loop of readMessage, lines 26-49: the locals the   *)
(* iteration computes before it branches on the field.                     *)
(***************************************************************************)
Top == stack[Len(stack)]

\* while (reader.pos < endPos)
Looping == status = "running" /\ pos < Top.endPos

\* startPos taken behind the tag instead of before it.
startPosAfterTag == Uint32(binaryData, pos).pos

startPos == pos
tag == Uint32(binaryData, pos)
fieldId == tag.val \div 8
wireType == tag.val % 8
field == FindField(Top.currentType, fieldId)
known == field.id # NoField.id
\* fieldName with the field number left out of the synthetic name.
fieldNameNoId == IF known THEN field.name ELSE "unknown"

fieldName == IF known THEN field.name ELSE "unknown_" \o ToString(fieldId)

\* if (field && field.repeated && !targetObj[fieldName]) targetObj[fieldName] = [];
heapWithArray ==
    IF known /\ field.repeated /\ ~Truthy(GetProp(heap, Top.targetObj, fieldName))
    THEN SetProp(Append(heap, NewArray), Top.targetObj, fieldName, RefV(Len(heap) + 1))
    ELSE heap

\* targetObj[fieldName], the field's sequence
fieldArray == GetProp(heapWithArray, Top.targetObj, fieldName)

currentPath ==
    IF known /\ field.repeated /\ IsArray(heapWithArray, fieldArray)
    THEN IndexPath(JoinPath(Top.basePath, fieldName),
                   Len(heapWithArray[fieldArray.n].elems))
    ELSE JoinPath(Top.basePath, fieldName)

regionStart == startPos + Top.globalOffset

isPacked == known /\ ~field.map /\ field.repeated /\ field.packed /\ wireType = 2
isNested == known /\ ~field.map /\ ~isPacked /\ wireType = 2 /\ field.resolved = "Type"
isScalar == known /\ ~field.map /\ ~isPacked /\ ~isNested

\* The message of the error thrown at line 168.
FailMsg == "Failed to decode binary with provided proto type."

\* A catch that logs the error and falls through to line 171.
ThrowSwallowed(r, h) ==
    /\ pos' = r.pos
    /\ heap' = h
    /\ stack' = << >>
    /\ status' = "returned"
    /\ console' = Append(console, [label |-> "Decoding error:", name |-> r.err,
                                    message |-> "", offset |-> r.pos])
    /\ returnValue' = [returned |-> TRUE, result |-> RefV(result), regions |-> regions]
    /\ UNCHANGED << regions, thrown >>

\* An exception inside readMessage unwinds to the catch of decodeWithRegions,
\* lines 166-169: console.error("Decoding error:", err), then a new Error
\* with a fixed message is thrown; line 171 is not reached.
Throw(r, h) ==
    /\ pos' = r.pos
    /\ heap' = h
    /\ stack' = << >>
    /\ status' = "thrown"
    /\ console' = Append(console, [label |-> "Decoding error:", name |-> r.err,
                                    message |-> "", offset |-> r.pos])
    /\ thrown' = [message |-> FailMsg]
    /\ UNCHANGED << regions, returnValue >>

\* Record with the region's start read from the cursor at the time of the
\* push (start: reader.pos) instead of the saved startPos.
RecordFromCursor(p, h, value) ==
    /\ pos' = p
    /\ heap' = h
    /\ regions' = Append(regions,
            ByteRegion(p, p, currentPath, value,
                       IF known THEN field.type ELSE "unknown",
                       wireType, fieldName, Top.depth))
    /\ UNCHANGED << stack, status, thrown, returnValue, console >>

\* regions.push({...}) at the end of an iteration, lines 151-160
Record(p, h, value) ==
    /\ pos' = p
    /\ heap' = h
    /\ regions' = Append(regions,
            ByteRegion(startPos, p, currentPath, value,
                       IF known THEN field.type ELSE "unknown",
                       wireType, fieldName, Top.depth))
    /\ UNCHANGED << stack, status, thrown, returnValue, console >>

\* The tag read at line 28 throws.
TagFails ==
    /\ Looping
    /\ ~tag.ok
    /\ Throw(tag, heap)
    /\ UNCHANGED << binaryData, selectedType, appVars, hoverVars >>

\* Lines 141-145: no descriptor for the field number.
UnknownField ==
    /\ Looping
    /\ tag.ok
    /\ ~known
    /\ LET s == SkipType(binaryData, tag.pos, wireType)
       IN  IF s.ok THEN Record(s.pos, heapWithArray, StrV("Unknown Field"))
           ELSE Throw(s, heapWithArray)
    /\ UNCHANGED << binaryData, selectedType, appVars, hoverVars >>

\* A map field whose region is recorded without the call of skipType.
MapFieldUnskipped ==
    /\ Looping
    /\ tag.ok
    /\ known /\ field.map
    /\ Record(tag.pos, heapWithArray, NullV)
    /\ UNCHANGED << binaryData, selectedType, appVars, hoverVars >>

\* Lines 56-58: a map field is skipped; value stays null.
MapField ==
    /\ Looping
    /\ tag.ok
    /\ known /\ field.map
    /\ LET s == SkipType(binaryData, tag.pos, wireType)
       IN  IF s.ok THEN Record(s.pos, heapWithArray, NullV)
           ELSE Throw(s, heapWithArray)
    /\ UNCHANGED << binaryData, selectedType, appVars, hoverVars >>

\* while (reader.pos < packedEnd) arr.push(reader[field.type]())
\* gives [ok, pos, vals, err]; a field.type that is no reader method is a
\* TypeError (reader[field.type] is not a function).
RECURSIVE ReadPacked(_, _, _, _, _)
ReadPacked(buf, p, packedEnd, method, vals) ==
    IF ~(p < packedEnd) THEN [ok |-> TRUE, pos |-> p, vals |-> vals, err |-> ""]
    ELSE IF method \notin ReaderMethods
    THEN [ok |-> FALSE, pos |-> p, vals |-> vals, err |-> "TypeError"]
    ELSE LET r == ReadScalar(method, buf, p)
         IN  IF ~r.ok THEN [ok |-> FALSE, pos |-> r.pos, vals |-> vals, err |-> r.err]
             ELSE ReadPacked(buf, r.pos, packedEnd, method, Append(vals, IntV(r.val)))

RECURSIVE PushAll(_, _, _)
PushAll(h, a, vals) ==
    IF vals = << >> THEN h ELSE PushAll(Push(h, a, Head(vals)), a, Tail(vals))

\* The region of a packed block with the indexed currentPath of line 48 as
\* its path.
PackedRegionIndexed(end, arr) ==
    ByteRegion(regionStart, end + Top.globalOffset, currentPath, RefV(arr),
               "packed " \o field.type, wireType, fieldName, Top.depth)

\* Lines 72-81: the one region of a packed block.
PackedRegion(end, arr) ==
    ByteRegion(regionStart, end + Top.globalOffset,
               JoinPath(Top.basePath, fieldName), RefV(arr),
               "packed " \o field.type, wireType, fieldName, Top.depth)

\* Lines 59-82: a packed block gets one region and skips lines 151-160.
PackedField ==
    /\ Looping
    /\ tag.ok
    /\ isPacked
    /\ LET packedLen == Uint32(binaryData, tag.pos)
           packedEnd == packedLen.pos + packedLen.val
           arr == fieldArray.n
           r == ReadPacked(binaryData, packedLen.pos, packedEnd, field.type, << >>)
       IN  IF ~packedLen.ok THEN Throw(packedLen, heapWithArray)
           ELSE IF ~r.ok THEN Throw(r, PushAll(heapWithArray, arr, r.vals))
           ELSE /\ pos' = r.pos
                /\ heap' = PushAll(heapWithArray, arr, r.vals)
                /\ regions' = Append(regions, PackedRegion(r.pos, arr))
                /\ UNCHANGED << stack, status, thrown, returnValue, console >>
    /\ UNCHANGED << binaryData, selectedType, appVars, hoverVars >>

\* Lines 85-112: a nested message; the iteration is suspended in the
\* recursive call readMessage(field.resolvedType, msgEnd, nestedObj,
\* currentPath, depth + 1, 0).
NestedMessage ==
    /\ Looping
    /\ tag.ok
    /\ isNested
    /\ LET len == Uint32(binaryData, tag.pos)
           msgEnd == len.pos + len.val
           nestedObj == Len(heapWithArray) + 1
           h1 == Append(heapWithArray, NewObject)
           h2 == IF field.repeated
                 THEN Push(h1, fieldArray.n, RefV(nestedObj))
                 ELSE SetProp(h1, Top.targetObj, fieldName, RefV(nestedObj))
           call == [startPos |-> startPos, wireType |-> wireType,
                    fieldName |-> fieldName, currentPath |-> currentPath,
                    type |-> field.type, nestedObj |-> nestedObj]
       IN  IF ~len.ok THEN Throw(len, heapWithArray)
           ELSE /\ pos' = len.pos
                /\ heap' = h2
                /\ stack' = Append(stack,
                      Frame(field.type, msgEnd, nestedObj, currentPath,
                            Top.depth + 1, 0, call))
                /\ UNCHANGED << regions, status, thrown, returnValue, console >>
    /\ UNCHANGED << binaryData, selectedType, appVars, hoverVars >>

\* The loop of a nested readMessage ends; its caller resumes at line 114
\* and records the region of the nested message, lines 151-160.
MessageReturn ==
    /\ status = "running"
    /\ Len(stack) > 1
    /\ ~(pos < Top.endPos)
    /\ LET call == Top.call
           caller == stack[Len(stack) - 1]
       IN  /\ stack' = SubSeq(stack, 1, Len(stack) - 1)
           /\ regions' = Append(regions,
                 ByteRegion(call.startPos, pos, call.currentPath,
                            RefV(call.nestedObj), call.type, call.wireType,
                            call.fieldName, caller.depth))
    /\ UNCHANGED << pos, heap, status, thrown, returnValue, console >>
    /\ UNCHANGED << binaryData, selectedType, appVars, hoverVars >>

\* Lines 116-139: a scalar, an enum, or a type the reader cannot read.
ScalarField ==
    /\ Looping
    /\ tag.ok
    /\ isScalar
    /\ LET readMethod == field.type
           r == IF readMethod \in ReaderMethods
                THEN ReadScalar(readMethod, binaryData, tag.pos)
                ELSE IF field.resolved = "Enum"
                     THEN Int32(binaryData, tag.pos)
                     ELSE SkipType(binaryData, tag.pos, wireType)
           value == IF readMethod \in ReaderMethods \/ field.resolved = "Enum"
                    THEN IntV(r.val)
                    ELSE StrV("[Skipped]")
       IN  IF ~r.ok THEN Throw(r, heapWithArray)
           ELSE Record(r.pos,
                       IF field.repeated
                       THEN Push(heapWithArray, fieldArray.n, value)
                       ELSE SetProp(heapWithArray, Top.targetObj, fieldName, value),
                       value)
    /\ UNCHANGED << binaryData, selectedType, appVars, hoverVars >>

\* The root loop ends: return { result, regions }, line 171.
DecodeReturn ==
    /\ status = "running"
    /\ Len(stack) = 1
    /\ ~(pos < Top.endPos)
    /\ status' = "returned"
    /\ stack' = << >>
    /\ returnValue' = [returned |-> TRUE, result |-> RefV(result), regions |-> regions]
    /\ UNCHANGED << pos, regions, heap, thrown, console >>
    /\ UNCHANGED << binaryData, selectedType, appVars, hoverVars >>

(***************************************************************************)
(* App: the decode effect, lines 92-108.                                   *)
(***************************************************************************)
\* The effect runs; with an empty buffer it only clears the result, else it
\* calls decodeWithRegions(type, binaryData): lines 11-15 and the root call
\* readMessage(type, reader.len, result, "", 0, 0).
DecodeEffect ==
    /\ status = "idle"
    /\ decodingResult = NoResult /\ error = ""
    /\ Len(binaryData) # 0
    /\ status' = "running"
    /\ pos' = 0
    /\ regions' = << >>
    /\ heap' = << NewObject >>
    /\ stack' = << Frame(selectedType, Len(binaryData), result, << >>, 0, 0, NoCall) >>
    /\ UNCHANGED << thrown, returnValue, console >>
    /\ UNCHANGED << binaryData, selectedType, appVars, hoverVars >>

\* Lines 100-107: the call returned, or it threw and the effect catches.
DecodeEffectEnd ==
    /\ status \in {"returned", "thrown"}
    /\ decodingResult = NoResult /\ error = ""
    /\ IF status = "returned"
       THEN /\ decodingResult' = [set |-> TRUE, data |-> returnValue.result,
                                  regions |-> returnValue.regions]
            /\ error' = "none"
            /\ UNCHANGED console
       ELSE /\ console' = Append(console, [label |-> "Decoding error", name |-> "Error",
                                           message |-> thrown.message, offset |-> NoIndex])
            /\ error' = "Decoding failed: " \o thrown.message
            /\ decodingResult' = NoResult
    /\ UNCHANGED << pos, regions, heap, stack, status, thrown, returnValue >>
    /\ UNCHANGED << binaryData, selectedType, hoverVars >>

(***************************************************************************)
(* The region queries, protoDecoder.ts lines 178-188.                      *)
(***************************************************************************)
\* candidates.sort((a, b) => (a.end - a.start) - (b.end - b.start)):
\* Array.prototype.sort is stable, equal spans keep their order.
\* An insertion that moves r before the elements of equal span as well.
RECURSIVE InsertBySpanUnstable(_, _)
InsertBySpanUnstable(sorted, r) ==
    IF sorted = << >> THEN << r >>
    ELSE LET last == sorted[Len(sorted)]
         IN  IF (last.end - last.start) - (r.end - r.start) >= 0
             THEN Append(InsertBySpanUnstable(SubSeq(sorted, 1, Len(sorted) - 1), r), last)
             ELSE Append(sorted, r)

RECURSIVE InsertBySpan(_, _)
InsertBySpan(sorted, r) ==
    IF sorted = << >> THEN << r >>
    ELSE LET last == sorted[Len(sorted)]
         IN  IF (last.end - last.start) - (r.end - r.start) > 0
             THEN Append(InsertBySpan(SubSeq(sorted, 1, Len(sorted) - 1), r), last)
             ELSE Append(sorted, r)

RECURSIVE SortBySpan(_)
SortBySpan(rs) ==
    IF rs = << >> THEN << >>
    ELSE InsertBySpan(SortBySpan(SubSeq(rs, 1, Len(rs) - 1)), rs[Len(rs)])

Covers(r, byteIndex) == byteIndex >= r.start /\ byteIndex < r.end

\* A findRegionByByte that sorts the array it was given before it filters.
FindRegionByByteRunInPlace(rs, byteIndex) ==
    LET s0 == [regions |-> rs]
        s1 == [s0 EXCEPT !.regions = SortBySpan(@)]
    IN  [regions |-> s1.regions,
         candidates |-> SelectSeq(s1.regions, LAMBDA r : Covers(r, byteIndex))]

\* The arrays of a call findRegionByByte(regions, byteIndex) when it
\* returns: regions.filter(...) makes a new array, candidates, and
\* candidates.sort(...) sorts that array in place.
FindRegionByByteRun(rs, byteIndex) ==
    LET s0 == [regions |-> rs]
        s1 == [regions |-> s0.regions,
               candidates |-> SelectSeq(s0.regions, LAMBDA r : Covers(r, byteIndex))]
    IN  [s1 EXCEPT !.candidates = SortBySpan(@)]

\* candidates[0], undefined for no candidate
FindRegionByByte(rs, byteIndex) ==
    LET sorted == FindRegionByByteRun(rs, byteIndex).candidates
    IN  IF sorted = << >> THEN NoRegion ELSE sorted[1]

\* The arrays of a call findRegionsByPath(regions, path) when it returns:
\* regions.filter(...) makes the array that is returned.
FindRegionsByPathRun(rs, path) ==
    LET s0 == [regions |-> rs]
    IN  [regions |-> s0.regions,
         returned |-> SelectSeq(s0.regions, LAMBDA r : r.path = path)]

FindRegionsByPath(rs, path) == FindRegionsByPathRun(rs, path).returned

\* decodingResult.regions.find(r => r.path === hoveredPath), App line 119
FindFirstByPath(rs, path) ==
    LET hits == SelectSeq(rs, LAMBDA r : r.path = path)
    IN  IF hits = << >> THEN NoRegion ELSE hits[1]

(***************************************************************************)
(* App: the hover effect, lines 111-124, run for new hover state.          *)
(***************************************************************************)
SyncHovers(byteIndex, path) ==
    IF ~decodingResult.set
    THEN /\ hoveredByteIndex' = byteIndex
         /\ hoveredPath' = path
         /\ UNCHANGED << hoveredRegion, decodingResult >>
    ELSE IF byteIndex # NoIndex
    THEN LET region == FindRegionByByte(decodingResult.regions, byteIndex)
             after == FindRegionByByteRun(decodingResult.regions, byteIndex).regions
         IN  /\ hoveredByteIndex' = byteIndex
             /\ hoveredRegion' = region
             /\ hoveredPath' = IF region = NoRegion THEN NoPath ELSE region.path
             /\ decodingResult' = [decodingResult EXCEPT !.regions = after]
    ELSE IF path # NoPath
    THEN /\ hoveredByteIndex' = byteIndex
         /\ hoveredPath' = path
         /\ hoveredRegion' = FindFirstByPath(decodingResult.regions, path)
         /\ UNCHANGED decodingResult
    ELSE /\ hoveredByteIndex' = byteIndex
         /\ hoveredPath' = path
         /\ hoveredRegion' = NoRegion
         /\ UNCHANGED decodingResult

\* HexViewer: onHoverByte(index) on entering a byte, onHoverByte(undefined)
\* on leaving it.
HoverByte ==
    /\ status \in {"returned", "thrown"}
    /\ error # ""
    /\ \E i \in (0..(Len(binaryData) - 1)) \cup {NoIndex} :
          /\ i # hoveredByteIndex
          /\ SyncHovers(i, hoveredPath)
    /\ UNCHANGED << decoderVars, binaryData, selectedType, error, found >>

\* JsonViewer: onHoverPath(path), onHoverPath(undefined) on leaving the tree.
HoverPath ==
    /\ status \in {"returned", "thrown"}
    /\ error # ""
    /\ \E p \in { regions[i].path : i \in 1..Len(regions) } \cup {NoPath} :
          /\ p # hoveredPath
          /\ SyncHovers(hoveredByteIndex, p)
    /\ UNCHANGED << decoderVars, binaryData, selectedType, error, found >>

Next ==
    \/ DecodeEffect
    \/ TagFails
    \/ UnknownField
    \/ MapField
    \/ PackedField
    \/ NestedMessage
    \/ MessageReturn
    \/ ScalarField
    \/ DecodeReturn
    \/ DecodeEffectEnd

Spec == Init /\ [][Next]_vars

(***************************************************************************)
(* The decode as one call that runs to completion. decodeWithRegions is    *)
(* synchronous and the App runs its decode effect after every render, so a *)
(* step that can be taken is taken: weak fairness of Next. CanStep is      *)
(* ENABLED <<Next>>_vars written out as a state predicate, and Fairness is *)
(* the definition of WF_vars(Next) with CanStep in its place.              *)
(***************************************************************************)
MaxLiveLen == 4

LiveInit ==
    /\ binaryData \in UNION { [1..n -> Bytes] : n \in 0..MaxLiveLen }
    /\ selectedType \in TypeNames
    /\ pos = 0
    /\ regions = << >>
    /\ heap = << >>
    /\ stack = << >>
    /\ status = "idle"
    /\ thrown = NoError
    /\ returnValue = NoValue
    /\ console = << >>
    /\ decodingResult = NoResult
    /\ error = ""
    /\ hoveredByteIndex = NoIndex
    /\ hoveredPath = NoPath
    /\ hoveredRegion = NoRegion
    /\ found = NoFound

\* A step of Next is possible: the decode effect can start, the loop of
\* readMessage can take an iteration, return or throw, or the effect can end.
CanStep ==
    \/ status = "idle" /\ decodingResult = NoResult /\ error = "" /\ Len(binaryData) # 0
    \/ status = "running"
    \/ status \in {"returned", "thrown"} /\ decodingResult = NoResult /\ error = ""

\* CanStep is the enabling condition of Next.
CanStepIsEnabled == CanStep <=> ENABLED <<Next>>_vars

Fairness == []<>(~CanStep) \/ []<><<Next>>_vars

LiveSpec == LiveInit /\ [][Next]_vars /\ Fairness

(***************************************************************************)
(* The queries as pure functions of a region list: the list is drawn from  *)
(* all lists of up to MaxRegions regions with start < end <= MaxOffset,    *)
(* held by the App as a decoding result, and the hover handlers query it.  *)
(***************************************************************************)
MaxOffset == 2
MaxRegions == 3

QueryPaths == { << NameTok("a") >>, << NameTok("a"), NameTok("b") >> }

QueryRegions ==
    { ByteRegion(s, e, p, NullV, "int32", 0, p[Len(p)].s, Len(p) - 1) :
        s \in 0..MaxOffset, e \in 0..MaxOffset, p \in QueryPaths }

\* A region has start < end.
RegionLists ==
    UNION { [1..n -> { r \in QueryRegions : r.start < r.end }] : n \in 0..MaxRegions }

QueryInit ==
    /\ binaryData = [i \in 1..(MaxOffset + 1) |-> 0]
    /\ selectedType = "Root"
    /\ pos = MaxOffset + 1
    /\ regions \in RegionLists
    /\ heap = << NewObject >>
    /\ stack = << >>
    /\ status = "returned"
    /\ thrown = NoError
    /\ returnValue = [returned |-> TRUE, result |-> RefV(result), regions |-> regions]
    /\ console = << >>
    /\ decodingResult = [set |-> TRUE, data |-> RefV(result), regions |-> regions]
    /\ error = "none"
    /\ hoveredByteIndex = NoIndex
    /\ hoveredPath = NoPath
    /\ hoveredRegion = NoRegion
    /\ found = NoFound

\* A call findRegionsByPath(decodingResult.regions, path) of the exported
\* query, with the path of a region or a path that no region has.
QueryByPath ==
    /\ decodingResult.set
    /\ \E p \in QueryPaths \cup {<< NameTok("b") >>} :
          LET run == FindRegionsByPathRun(decodingResult.regions, p)
          IN  /\ found' = [called |-> TRUE, path |-> p, regions |-> run.returned]
              /\ decodingResult' = [decodingResult EXCEPT !.regions = run.regions]
    /\ UNCHANGED << decoderVars, binaryData, selectedType, error,
                    hoveredByteIndex, hoveredPath, hoveredRegion >>

QueryNext == HoverByte \/ HoverPath \/ QueryByPath

QuerySpec == QueryInit /\ [][QueryNext]_vars

(***************************************************************************)
(* The same program on longer buffers over the bytes that frame nested     *)
(* messages and packed blocks, so that a nested message can occur twice.   *)
(***************************************************************************)
MaxDeepLen == 6

DeepBytes == {0, 2, 18, 34}

DeepInit ==
    /\ binaryData \in UNION { [1..n -> DeepBytes] : n \in 0..MaxDeepLen }
    /\ selectedType \in TypeNames
    /\ pos = 0
    /\ regions = << >>
    /\ heap = << >>
    /\ stack = << >>
    /\ status = "idle"
    /\ thrown = NoError
    /\ returnValue = NoValue
    /\ console = << >>
    /\ decodingResult = NoResult
    /\ error = ""
    /\ hoveredByteIndex = NoIndex
    /\ hoveredPath = NoPath
    /\ hoveredRegion = NoRegion
    /\ found = NoFound

DeepSpec == DeepInit /\ [][Next]_vars

(***************************************************************************)
(* Properties.                                                             *)
(***************************************************************************)
Returned == returnValue.returned
Out == returnValue.regions

\* C1: every region of a list that decodeWithRegions returned has
\* start < end.
C1_StartBeforeEnd ==
    Returned => \A i \in 1..Len(Out) : Out[i].start < Out[i].end

\* C1 witness: a returned list that holds the region of a packed block of
\* length zero and the region of an unknown field.
C1_Witness ==
    /\ Returned
    /\ \E i \in 1..Len(Out) :
          /\ Out[i].type = "packed int32"
          /\ Out[i].end = Out[i].start + 2
    /\ \E i \in 1..Len(Out) : Out[i].type = "unknown"

\* a is a strict structural ancestor of b: b is a followed by further
\* ".name" or "[index]" segments.
StrictAncestor(a, b) == Len(a) < Len(b) /\ SubSeq(b, 1, Len(a)) = a

\* C2: in a returned list, a region whose path is a strict structural
\* ancestor of another region's path contains that region's span.
C2_NestingContainment ==
    Returned =>
        \A i, j \in 1..Len(Out) :
            StrictAncestor(Out[i].path, Out[j].path) =>
                Out[i].start <= Out[j].start /\ Out[j].end <= Out[i].end

\* C3: once a read or skip has failed (the catch has logged it), the call
\* has thrown the one error of line 168, has returned nothing, and the App
\* holds no decoding result.
C3_AllOrNothing ==
    console # << >> =>
        /\ status = "thrown"
        /\ thrown = [message |-> FailMsg]
        /\ returnValue = NoValue
        /\ ~decodingResult.set

\* C3 witness: the decode failed after two regions and a field of the
\* result had been built, and the decode effect has run to its end.
C3_Witness ==
    /\ status = "thrown"
    /\ Len(regions) >= 2
    /\ DOMAIN heap[result].props # {}
    /\ error # ""

\* C4: when the loop of a readMessage activation ends, the cursor is exactly
\* at the activation's endPos.
C4_BoundaryDiscipline ==
    (status = "running" /\ ~(pos < Top.endPos)) => pos = Top.endPos

\* The region of a nested message: its value is the nested object.
IsMessageRegion(r) == r.value.t = "ref" /\ ~heap[r.value.n].arr

\* Region b was decoded inside the nested message of region a.
DecodedInside(b, a) ==
    /\ IsMessageRegion(a)
    /\ StrictAncestor(a.path, b.path)
    /\ a.start <= b.start /\ b.end <= a.end

\* C5: in a returned list the region of a nested message precedes the
\* regions decoded inside it, and regions of one depth are in tag order.
C5_PreOrder ==
    Returned =>
        \A i, j \in 1..Len(Out) :
            /\ DecodedInside(Out[j], Out[i]) => i < j
            /\ (Out[i].depth = Out[j].depth /\ Out[i].start < Out[j].start) => i < j

\* The value of the k-th varint that ends in buf[from + 1 .. to], each of at
\* most five bytes: the 7-bit groups of its bytes, least significant first.
VarintAt(buf, from, to, k) ==
    LET ends == { q \in from..(to - 1) : buf[q + 1] < 128 }
        last == CHOOSE q \in ends : Cardinality({ e \in ends : e < q }) = k - 1
        first == IF k = 1 THEN from
                 ELSE 1 + CHOOSE q \in ends : Cardinality({ e \in ends : e < q }) = k - 2
        group[q \in first..last] ==
            (buf[q + 1] % 128) * Pow2(7 * (q - first))
            + (IF q = last THEN 0 ELSE group[q + 1])
    IN  group[first]

\* A successful iteration on a packed block is about to happen.
PackedOccurs == Looping /\ tag.ok /\ isPacked /\ status' = "running"

\* C6: a packed block yields exactly one region, from the tag to the cursor
\* after the last element, with the unindexed path, the type "packed " +
\* element type and the field's sequence as value, and the block's N values
\* are appended to that sequence in buffer order.
C6_PackedBlock ==
    [][PackedOccurs =>
        LET from == Uint32(binaryData, tag.pos).pos
            N == Cardinality({ q \in from..(pos' - 1) : binaryData[q + 1] < 128 })
            target == heap[Top.targetObj].props
            before == IF field.name \in DOMAIN target
                      THEN heap[target[field.name].n].elems ELSE << >>
            seq == heap'[Top.targetObj].props[field.name]
            after == heap'[seq.n].elems
            r == regions'[Len(regions')]
        IN  /\ regions' = Append(regions, r)
            /\ r.start = pos /\ r.end = pos'
            /\ r.path = Append(Top.basePath, NameTok(field.name))
            /\ r.type = "packed " \o field.type
            /\ r.fieldName = field.name /\ r.depth = Top.depth
            /\ r.value = seq /\ heap'[seq.n].arr
            /\ Len(after) = Len(before) + N
            /\ SubSeq(after, 1, Len(before)) = before
            /\ \A k \in 1..N :
                  after[Len(before) + k] = IntV(VarintAt(binaryData, from, pos', k))
    ]_vars

\* C6 witness: a returned list with the region of a packed block whose two
\* elements are different values.
C6_Witness ==
    /\ Returned
    /\ \E i \in 1..Len(Out) :
          /\ Out[i].type = "packed int32"
          /\ Out[i].end - Out[i].start = 4
          /\ Len(heap[Out[i].value.n].elems) = 2
          /\ heap[Out[i].value.n].elems[1] # heap[Out[i].value.n].elems[2]

Span(r) == r.end - r.start

\* C7: the hovered region is undefined exactly when no region of the list
\* contains the hovered byte; otherwise it contains the byte, no containing
\* region has a smaller span, and it is the first of those of its span.
C7_FindRegionByByte ==
    hoveredByteIndex # NoIndex =>
        LET rs == decodingResult.regions
            b == hoveredByteIndex
            containing == { i \in 1..Len(rs) : rs[i].start <= b /\ b < rs[i].end }
        IN  IF containing = {} THEN hoveredRegion = NoRegion
            ELSE \E i \in containing :
                    /\ hoveredRegion = rs[i]
                    /\ \A j \in containing : Span(rs[i]) <= Span(rs[j])
                    /\ \A j \in containing : Span(rs[j]) = Span(rs[i]) => i <= j

\* C7 witness: a byte is hovered that a larger region and, after it, two
\* different regions of the same smallest span contain.
C7_Witness ==
    /\ hoveredByteIndex # NoIndex
    /\ Len(decodingResult.regions) = 3
    /\ LET rs == decodingResult.regions
       IN  /\ \A i \in 1..3 : Covers(rs[i], hoveredByteIndex)
           /\ Span(rs[1]) > Span(rs[2])
           /\ Span(rs[2]) = Span(rs[3])
           /\ rs[2] # rs[3]
           /\ hoveredRegion = rs[2]

\* The value that a path leads to in the value tree, from value v.
RECURSIVE Resolve(_, _, _)
Resolve(h, v, path) ==
    IF path = << >> THEN v
    ELSE IF v.t # "ref" THEN UndefV
    ELSE LET seg == Head(path)
             o == h[v.n]
         IN  IF seg.k = "name"
             THEN IF ~o.arr /\ seg.s \in DOMAIN o.props
                  THEN Resolve(h, o.props[seg.s], Tail(path)) ELSE UndefV
             ELSE IF o.arr /\ seg.i < Len(o.elems)
                  THEN Resolve(h, o.elems[seg.i + 1], Tail(path)) ELSE UndefV

\* C8: after a successful decode, the element at position i of a repeated
\* field's sequence in the value tree is the value of the region whose path
\* ends in [i].
C8_IndexedElement ==
    Returned =>
        \A n \in 1..Len(Out) :
            Out[n].path[Len(Out[n].path)].k = "idx" =>
                Resolve(heap, returnValue.result, Out[n].path) = Out[n].value

\* Where the value of wire type wt that starts at offset p ends (wire types
\* 0, 1, 2 and 5), or -1 when the buffer ends before it does.
SkippedEnd(buf, p, wt) ==
    LET n == Uint32(buf, p)
        ends == { q \in p..(Len(buf) - 1) : buf[q + 1] < 128 }
        e == CASE wt = 0 -> IF ends = {} THEN 0 - 1
                            ELSE 1 + CHOOSE q \in ends : \A x \in ends : q <= x
               [] wt = 1 -> p + 8
               [] wt = 5 -> p + 4
               [] wt = 2 -> IF n.ok THEN n.pos + n.val ELSE 0 - 1
    IN  IF e > Len(buf) THEN 0 - 1 ELSE e

\* An iteration on a field number without a descriptor is about to happen.
UnknownOccurs == Looping /\ tag.ok /\ ~known /\ wireType \in {0, 1, 2, 5}

\* C9: a field without a descriptor fails the decode only when its value
\* cannot be skipped; otherwise exactly one region is recorded, from the tag
\* to the end of the skipped value, with fieldName and last path segment
\* unknown_<fieldNumber>, type unknown and no [index] suffix.
C9_UnknownField ==
    [][UnknownOccurs =>
        LET number == Uint32(binaryData, pos).val \div 8
            name == "unknown_" \o ToString(number)
            end == SkippedEnd(binaryData, tag.pos, wireType)
            r == regions'[Len(regions')]
        IN  IF end = 0 - 1 THEN status' = "thrown"
            ELSE /\ status' = "running"
                 /\ regions' = Append(regions, r)
                 /\ r.start = pos /\ r.end = end /\ pos' = end
                 /\ r.fieldName = name
                 /\ r.path = Append(Top.basePath, NameTok(name))
                 /\ r.type = "unknown"
                 /\ r.wireType = wireType /\ r.depth = Top.depth
                 /\ heap' = heap
    ]_vars

\* C9 witness: a returned list in which two regions of unknown field 0
\* share one path.
C9_Witness ==
    /\ Returned
    /\ \E i, j \in 1..Len(Out) :
          /\ i < j
          /\ Out[i].type = "unknown" /\ Out[j].type = "unknown"
          /\ Out[i].path = << NameTok("unknown_0") >>
          /\ Out[j].path = Out[i].path

\* C10: the error of a failed decode carries the offset of the failure and
\* the type name or the field number.
C10_ErrorCarriesContext ==
    status = "thrown" =>
        /\ "offset" \in DOMAIN thrown
        /\ "typeName" \in DOMAIN thrown \/ "fieldNumber" \in DOMAIN thrown

\* An iteration on a packed block whose length prefix could be read is about
\* to happen.
PackedBlockOccurs == Looping /\ tag.ok /\ isPacked /\ Uint32(binaryData, tag.pos).ok

\* C11: the elements of a packed block are decoded until the cursor is
\* exactly at packedEnd = cursor + length; when an element takes the cursor
\* past packedEnd the decode fails and no region is recorded.
C11_PackedBoundary ==
    [][PackedBlockOccurs =>
        LET packedLen == Uint32(binaryData, tag.pos)
            packedEnd == packedLen.pos + packedLen.val
        IN  \/ status' = "thrown" /\ regions' = regions
            \/ /\ status' = "running"
               /\ pos' = packedEnd
               /\ regions'[Len(regions')].end = packedEnd
    ]_vars

\* An iteration on a map field, or on a field whose type is no reader
\* method and that is not read as a nested message, is about to happen.
RecoveryOccurs ==
    /\ Looping /\ tag.ok /\ known
    /\ wireType \in {0, 1, 2, 5}
    /\ \/ field.map
       \/ /\ field.type \notin {"int32", "uint32", "sint32", "bool", "fixed32"}
          /\ ~(field.repeated /\ field.packed /\ wireType = 2)
          /\ ~(field.resolved = "Type" /\ wireType = 2)

\* The signed 32-bit number that the varint in buf[from + 1 .. last + 1]
\* encodes: the low 32 bits of its 7-bit groups, least significant first,
\* bit 31 being the sign.
SignedVarint32(buf, from, last) ==
    LET group[q \in from..last] ==
            LET b == buf[q + 1] % 128
                part == IF q - from < 4 THEN b * Pow2(7 * (q - from))
                        ELSE IF q - from = 4
                        THEN (b % 8) * Pow2(28)
                             - (IF (b \div 8) % 2 = 1 THEN Pow2(30) + Pow2(30) ELSE 0)
                        ELSE 0
            IN  part + (IF q = last THEN 0 ELSE group[q + 1])
    IN  group[from]

C12_SkippedReached ==
    /\ Returned
    /\ \E i \in 1..Len(Out) :
          /\ Out[i].fieldName = "kids" /\ Out[i].value = StrV("[Skipped]")
          /\ Out[i].path = << NameTok("kids"), IdxTok(0) >>

\* The regions of depth 0 of a list, in list order.
TopLevel(rs) == SelectSeq(rs, LAMBDA r : r.depth = 0)

\* The tag that starts at offset p of the buffer names region r: its wire
\* type is r's, and its field number is the one r's field name stands for.
TagNames(p, r) ==
    LET t == Uint32(binaryData, p)
    IN  /\ t.ok
        /\ t.val % 8 = r.wireType
        /\ IF r.type = "unknown"
           THEN r.fieldName = "unknown_" \o ToString(t.val \div 8)
           ELSE \E T \in DOMAIN Schema : \E k \in 1..Len(Schema[T]) :
                   Schema[T][k].id = t.val \div 8 /\ Schema[T][k].name = r.fieldName

\* C13: globalOffset is 0 in every activation of readMessage; after a
\* successful decode the regions of depth 0, in list order, tile the buffer
\* from offset 0 to its length, every region of any depth starts at the
\* buffer offset of its tag, and findRegionByByte finds a region for every
\* byte of the buffer.
C13_AbsoluteTiling ==
    /\ \A i \in 1..Len(stack) : stack[i].globalOffset = 0
    /\ Returned =>
          LET top == TopLevel(Out)
          IN  /\ top # << >>
              /\ top[1].start = 0
              /\ \A i \in 1..(Len(top) - 1) : top[i + 1].start = top[i].end
              /\ top[Len(top)].end = Len(binaryData)
              /\ \A i \in 1..Len(Out) : TagNames(Out[i].start, Out[i])
              /\ \A b \in 0..(Len(binaryData) - 1) :
                    FindRegionByByte(Out, b) # NoRegion

\* C13 witness: a returned list whose two regions of depth 0, an empty
\* packed block with a two-byte length and a nested message, tile a buffer
\* of five bytes.
C13_Witness ==
    /\ Returned
    /\ Len(binaryData) = 5
    /\ LET top == TopLevel(Out)
       IN  /\ Len(top) = 2
           /\ top[1].type = "packed int32" /\ top[1].end = 3
           /\ top[2].type = "Inner" /\ top[2].start = 3

\* A returned list with a region of depth 1 that starts behind offset 0,
\* inside the region of its nested message.
C13_NestedReached ==
    /\ Returned
    /\ \E i, j \in 1..Len(Out) :
          /\ Out[i].depth = 1 /\ Out[j].depth = 0
          /\ Out[j].start < Out[i].start /\ Out[i].end <= Out[j].end

\* The cursor never decreases during a decode, and strictly increases in
\* every iteration of the readMessage loop that does not throw.
C14_CursorAdvances ==
    [][status = "running" =>
            /\ pos' >= pos
            /\ (Looping /\ status' = "running") => pos' > pos]_vars

\* Every element that the loop of a packed block can read, at any offset of
\* the buffer, moves the cursor forward.
C14_ElementAdvances ==
    \A p \in 0..Len(binaryData) :
        \A T \in DOMAIN Schema : \A k \in 1..Len(Schema[T]) :
            Schema[T][k].packed =>
                LET r == ReadScalar(Schema[T][k].type, binaryData, p)
                IN  /\ r.pos >= p
                    /\ r.ok => r.pos > p

\* C14: during a decode the cursor never decreases; it strictly increases
\* in every iteration of the readMessage loop that does not throw and with
\* every element a packed block's loop reads; and a decode that has started
\* eventually returns or throws.
C14_Termination ==
    /\ C14_CursorAdvances
    /\ []C14_ElementAdvances
    /\ (status = "running") ~> (status \in {"returned", "thrown"})

\* C14 witness: a decode has returned after readMessage recursed twice into
\* the message type that nests itself.
C14_Witness ==
    /\ Returned
    /\ \E i \in 1..Len(Out) :
          /\ Out[i].depth = 1
          /\ Out[i].type = "Inner"
          /\ Out[i].path = << NameTok("kids"), IdxTok(0), NameTok("kids"), IdxTok(0) >>

\* C15: whatever calls of findRegionByByte and findRegionsByPath were made on
\* it, the region list is the list the decode returned, with the same
\* length, elements and order; and the last findRegionsByPath call returned
\* exactly the regions whose path equals its argument, in list order.
C15_QueriesReadOnly ==
    /\ decodingResult.regions = returnValue.regions
    /\ found.called =>
          LET rs == decodingResult.regions
              hits == { i \in 1..Len(rs) : rs[i].path = found.path }
              nth(k) == CHOOSE i \in hits : Cardinality({ j \in hits : j < i }) = k - 1
          IN  /\ Len(found.regions) = Cardinality(hits)
              /\ \A k \in 1..Len(found.regions) : found.regions[k] = rs[nth(k)]

\* C15 witness: on a list that is not in span order, a byte that two regions
\* cover has been looked up, and a findRegionsByPath call has returned two
\* of the list's three regions, skipping the one between them.
C15_Witness ==
    /\ Len(decodingResult.regions) = 3
    /\ LET rs == decodingResult.regions
       IN  /\ Span(rs[1]) > Span(rs[2])
           /\ hoveredByteIndex # NoIndex
           /\ Covers(rs[1], hoveredByteIndex) /\ Covers(rs[2], hoveredByteIndex)
           /\ hoveredRegion = rs[2]
           /\ found.called
           /\ found.regions = << rs[1], rs[3] >>
           /\ rs[2].path # found.path

====
